---------------------------- MODULE Spec2Model ----------------------------
(***************************************************************************)
(* A state-machine model of wmr200.c, the Oregon Scientific WMR200 USB HID *)
(* communication wrapper: the frame reader (read_byte), the packet framer  *)
(* (mainloop), the checksum verifier, the packet decoders, the latest      *)
(* reading store, the handler list, the heartbeat loop and the start/stop  *)
(* interface.                                                              *)
(*                                                                         *)
(* Bytes are integers 0..255.  A C array is a sequence; C index i is       *)
(* sequence index i + 1.                                                   *)
(***************************************************************************)
EXTENDS Integers, Sequences, FiniteSets, TLC

VARIABLES
    wire,         \* device: bytes the station has still to deliver
    raw_frames,   \* device: physical frames it delivers first, as they are
    now,          \* environment: the wall clock, time(NULL)
    buf,          \* wmr->buf, the current physical frame
    buf_avail,    \* wmr->buf_avail
    buf_pos,      \* wmr->buf_pos
    packet,       \* wmr->packet, the packet buffer
    packet_type,  \* wmr->packet_type
    packet_len,   \* wmr->packet_len
    meta,         \* wmr->meta, the connection counters
    latest,       \* wmr->latest, the latest reading store
    handler,      \* wmr->handler, the handler list, head first
    conn_since,   \* wmr->conn_since
    sent,         \* command frames written with hid_write, heartbeats excepted
    live,         \* heap: packet buffers allocated and not yet freed
    started,      \* "no", "ok" or "failed": what wmr_start returned
    exited,       \* TRUE once exit(1) has ended the process
    ml_pc,        \* mainloop thread: position
    ml_i,         \* mainloop thread: i of the payload loop
    ml_sub,       \* mainloop thread: decoder calls done for the current packet
    ml_gotos,     \* mainloop thread: consecutive goto act_on_packet_type taken
    verify_ret,   \* mainloop thread: what verify_packet last returned
    hb_pc,        \* heartbeat thread: position
    hb_reading,   \* heartbeat thread: the local reading of emit_meta_packet
    cancel_ml,    \* pthread_cancel is pending for the mainloop thread
    cancel_hb,    \* pthread_cancel is pending for the heartbeat thread
    stop_pc,      \* wmr_stop: position of its caller
    ml_calls,     \* log: handler calls of the mainloop's latest dispatch
    hb_calls,     \* log: handler calls of the heartbeat's latest dispatch
    ml_event,     \* log: the mainloop's latest store update and dispatch
    hist_warn,    \* log: warnings of the current process_historic_data
    hist_ext,     \* log: external sensor decodes of the current historic record
    stop_mid      \* log: the packet that was being assembled when stop came

vars ==
    << wire, raw_frames, now, buf, buf_avail, buf_pos, packet, packet_type, packet_len,
       meta, latest, handler, conn_since, sent, live, started, exited,
       ml_pc, ml_i, ml_sub, ml_gotos, verify_ret, hb_pc, hb_reading,
       cancel_ml, cancel_hb, stop_pc, ml_calls, hb_calls, ml_event,
       hist_warn, hist_ext, stop_mid >>

-----------------------------------------------------------------------------
(* Program constants                                                       *)

HEARTBEAT == 208
HISTORIC_DATA_NOTIF == 209
HISTORIC_DATA == 210
REQUEST_HISTORIC_DATA == 218
LOGGER_DATA_ERASE == 219
COMMUNICATION_STOP == 223

SIGN_NEGATIVE == 8

\* First and last value of the packet type marks, as tested in mainloop.
TYPE_MARK_LO == 208
TYPE_MARK_HI == 223

\* wmr200.h and wmrdata.h are not part of the source at hand: the frame size,
\* the number of temperature slots and the reading type codes are taken
\* from the specification (type codes: distinct bytes in 0xD0..0xDF).
WMR200_FRAME_SIZE == 8
WMR200_MAX_TEMP_SENSORS == 2
WMR_WIND == 211
WMR_RAIN == 212
WMR_UVI == 213
WMR_BARO == 214
WMR_TEMP == 215
WMR_STATUS == 217
WMR_META == 255

LEVEL_STRING == << "ok", "low" >>
STATUS_STRING == << "ok", "failed" >>
FORECAST_STRING ==
    << "partly_cloudy-day", "rainy", "cloudy", "sunny", "clear", "snowy",
       "partly_cloudy-night" >>
WIND_DIR_STRING ==
    << "N", "NNE", "NE", "ENE", "E", "ESE", "SE", "SSE",
       "S", "SSW", "SW", "WSW", "W", "WNW", "NW", "NNW" >>

-----------------------------------------------------------------------------
(* Bit and byte helpers                                                    *)

Min(a, b) == IF a < b THEN a ELSE b

NTH_BIT(n, val) == (val \div (2 ^ n)) % 2
LOW(b) == b % 16
HIGH(b) == LOW(b \div 16)

\* data[i] for a decoder working at data = packet + off.  A read past the end
\* of the buffer yields g, a value the caller does not control.
At(p, off, i, g) == IF off + i < Len(p) THEN p[off + i + 1] ELSE g

\* table[flag] of a string table; past its end the pointer read is garbage.
Lookup(table, flag) ==
    IF flag < Len(table) THEN table[flag + 1] ELSE "garbage"

\* mktime of a broken-down time with tm_sec = 0, counted in minutes on a
\* simplified calendar (every month 31 days, no time zone).  tm_year is
\* (2000 + year) - 1900.
mktime(tm_year, tm_mon, tm_mday, tm_hour, tm_min) ==
    (((tm_year * 12 + tm_mon) * 31 + tm_mday) * 24 + tm_hour) * 60 + tm_min

get_reading_time_from_packet(p, g) ==
    mktime((2000 + At(p, 0, 6, g)) - 1900, At(p, 0, 5, g), At(p, 0, 4, g),
           At(p, 0, 3, g), At(p, 0, 2, g))


-----------------------------------------------------------------------------
(* Readings and the decoders.  A reading is [type, time, data]; speeds and *)
(* temperatures are kept in tenths, rain amounts in ten-thousandths.       *)

\* TENTH_OF_INCH, 0.0254, in ten-thousandths.
TENTH_OF_INCH == 254

Reading(type, time, data) == [type |-> type, time |-> time, data |-> data]

process_wind_data(p, off, g) ==
    LET dir_flag == LOW(At(p, off, 7, g))
        gust_speed == 256 * LOW(At(p, off, 10, g)) + At(p, off, 9, g)
        avg_speed == 16 * LOW(At(p, off, 11, g)) + HIGH(At(p, off, 10, g))
        chill == At(p, off, 12, g)
    IN  Reading(WMR_WIND, get_reading_time_from_packet(p, g),
                [dir |-> Lookup(WIND_DIR_STRING, dir_flag),
                 gust_speed |-> gust_speed, avg_speed |-> avg_speed,
                 chill |-> chill])

process_rain_data(p, off, g) ==
    LET Word(hi, lo) == (At(p, off, hi, g) * 256 + At(p, off, lo, g)) * TENTH_OF_INCH
    IN  Reading(WMR_RAIN, get_reading_time_from_packet(p, g),
                [rate |-> Word(8, 7), accum_hour |-> Word(10, 9),
                 accum_24h |-> Word(12, 11), accum_2007 |-> Word(14, 13)])

process_uvi_data(p, off, g) ==
    Reading(WMR_UVI, get_reading_time_from_packet(p, g),
            [index |-> LOW(At(p, off, 7, g))])

process_baro_data(p, off, g) ==
    LET pressure == 256 * LOW(At(p, off, 8, g)) + At(p, off, 7, g)
        alt_pressure == 256 * LOW(At(p, off, 10, g)) + At(p, off, 9, g)
        forecast_flag == HIGH(At(p, off, 8, g))
    IN  Reading(WMR_BARO, get_reading_time_from_packet(p, g),
                [pressure |-> pressure, alt_pressure |-> alt_pressure,
                 forecast |-> Lookup(FORECAST_STRING, forecast_flag)])

\* The sensor id of a temperature record; process_temp_data calls exit(1)
\* when it is greater than 1.
temp_sensor_id(p, off, g) == LOW(At(p, off, 7, g))

\* temp_unknown_sensor letting sensor 2 through.
temp_unknown_sensor_above_two(p, off, g) == temp_sensor_id(p, off, g) > 2

temp_unknown_sensor(p, off, g) == temp_sensor_id(p, off, g) > 1

\* process_temp_data taking the sign from the low nibble of the next byte.
process_temp_data_sign_of_next(p, off, g) ==
    LET mag == 256 * LOW(At(p, off, 9, g)) + At(p, off, 8, g)
        temp == IF LOW(At(p, off, 10, g)) = SIGN_NEGATIVE THEN 0 - mag ELSE mag
        dmag == 256 * LOW(At(p, off, 12, g)) + At(p, off, 11, g)
        dew_point == IF LOW(At(p, off, 13, g)) = SIGN_NEGATIVE THEN 0 - dmag ELSE dmag
    IN  Reading(WMR_TEMP, get_reading_time_from_packet(p, g),
                [humidity |-> At(p, off, 10, g), heat_index |-> At(p, off, 13, g),
                 temp |-> temp, dew_point |-> dew_point,
                 sensor_id |-> temp_sensor_id(p, off, g)])

process_temp_data(p, off, g) ==
    LET humidity == At(p, off, 10, g)
        heat_index == At(p, off, 13, g)
        mag == 256 * LOW(At(p, off, 9, g)) + At(p, off, 8, g)
        temp == IF HIGH(At(p, off, 9, g)) = SIGN_NEGATIVE THEN 0 - mag ELSE mag
        dmag == 256 * LOW(At(p, off, 12, g)) + At(p, off, 11, g)
        dew_point == IF HIGH(At(p, off, 12, g)) = SIGN_NEGATIVE THEN 0 - dmag ELSE dmag
    IN  Reading(WMR_TEMP, get_reading_time_from_packet(p, g),
                [humidity |-> humidity, heat_index |-> heat_index,
                 temp |-> temp, dew_point |-> dew_point,
                 sensor_id |-> temp_sensor_id(p, off, g)])

process_status_data(p, off, g) ==
    LET Bit(n, i) == NTH_BIT(n, At(p, off, i, g))
    IN  Reading(WMR_STATUS, get_reading_time_from_packet(p, g),
                [wind_bat |-> Lookup(LEVEL_STRING, Bit(0, 4)),
                 temp_bat |-> Lookup(LEVEL_STRING, Bit(1, 4)),
                 rain_bat |-> Lookup(LEVEL_STRING, Bit(4, 5)),
                 uv_bat |-> Lookup(LEVEL_STRING, Bit(5, 5)),
                 wind_sensor |-> Lookup(STATUS_STRING, Bit(0, 2)),
                 temp_sensor |-> Lookup(STATUS_STRING, Bit(1, 2)),
                 rain_sensor |-> Lookup(STATUS_STRING, Bit(4, 3)),
                 uv_sensor |-> Lookup(STATUS_STRING, Bit(5, 3)),
                 rtc_signal_level |-> Lookup(LEVEL_STRING, Bit(8, 4))])

\* The indices of wmr->packet a decoder call reads: the time bytes, which
\* get_reading_time_from_packet takes from the start of the packet whatever
\* the offset, and the decoder's own fields at data = packet + off.
decoder_reads(op, off) ==
    2 .. 6
    \cup { off + i : i \in CASE op = "wind" -> {7, 9, 10, 11, 12}
                             [] op = "rain" -> 7 .. 14
                             [] op = "uvi" -> {7}
                             [] op = "baro" -> 7 .. 10
                             [] op = "temp" -> 7 .. 13
                             [] op = "status" -> 2 .. 5
                             [] OTHER -> { } }

\* One decoder call: the decoder op applied at data = packet + off.
Decode(op, p, off, g) ==
    CASE op = "wind" -> process_wind_data(p, off, g)
      [] op = "rain" -> process_rain_data(p, off, g)
      [] op = "uvi" -> process_uvi_data(p, off, g)
      [] op = "baro" -> process_baro_data(p, off, g)
      [] op = "temp" -> process_temp_data(p, off, g)
      [] op = "status" -> process_status_data(p, off, g)

Call(op, off) == [op |-> op, off |-> off]

\* The external sensor count of a historic record, as read and as clamped.
ext_sensor_count(p, g) == At(p, 0, 32, g)

\* ext_sensor_clamped without the MIN.
ext_sensor_unclamped(p, g) == ext_sensor_count(p, g)

ext_sensor_clamped(p, g) == Min(ext_sensor_count(p, g), WMR200_MAX_TEMP_SENSORS)

\* process_historic_data with the wind record decoded before the rain record.
process_historic_data_wind_first(p, g) ==
    << Call("wind", 13), Call("rain", 0), Call("uvi", 20), Call("baro", 21),
       Call("temp", 26), Call("count", 32) >>
    \o [i \in 1 .. ext_sensor_clamped(p, g) |-> Call("temp", 33 + 7 * (i - 1))]

\* process_historic_data as the sequence of its steps: five decoder calls,
\* the read of the count byte (with its warning), one call per external
\* sensor.
process_historic_data(p, g) ==
    << Call("rain", 0), Call("wind", 13), Call("uvi", 20), Call("baro", 21),
       Call("temp", 26), Call("count", 32) >>
    \o [i \in 1 .. ext_sensor_clamped(p, g) |-> Call("temp", 33 + 7 * (i - 1))]

\* dispatch_packet as the sequence of decoder calls it makes; none for an
\* unknown packet type.
dispatch_packet(type, p, g) ==
    CASE type = HISTORIC_DATA -> process_historic_data(p, g)
      [] type = WMR_WIND -> << Call("wind", 0) >>
      [] type = WMR_RAIN -> << Call("rain", 0) >>
      [] type = WMR_UVI -> << Call("uvi", 0) >>
      [] type = WMR_BARO -> << Call("baro", 0) >>
      [] type = WMR_TEMP -> << Call("temp", 0) >>
      [] type = WMR_STATUS -> << Call("status", 0) >>
      [] OTHER -> << >>

-----------------------------------------------------------------------------
(* The latest reading store and the handler list                           *)

\* update_if_newer with > for >=.
update_if_strictly_newer(old, new) == IF new.time > old.time THEN new ELSE old

update_if_newer(old, new) == IF new.time >= old.time THEN new ELSE old

\* The slot a decoder merges its reading into.
Merge(store, r) ==
    CASE r.type = WMR_WIND ->
             [store EXCEPT !.wind = update_if_newer(@, r)]
      [] r.type = WMR_RAIN ->
             [store EXCEPT !.rain = update_if_newer(@, r)]
      [] r.type = WMR_UVI ->
             [store EXCEPT !.uvi = update_if_newer(@, r)]
      [] r.type = WMR_BARO ->
             [store EXCEPT !.baro = update_if_newer(@, r)]
      [] r.type = WMR_STATUS ->
             [store EXCEPT !.status = update_if_newer(@, r)]
      [] r.type = WMR_TEMP ->
             [store EXCEPT !.temp[r.data.sensor_id] = update_if_newer(@, r)]

\* The slot of the store a reading of this type (and sensor) lives in.
SlotOf(store, r) ==
    CASE r.type = WMR_WIND -> store.wind
      [] r.type = WMR_RAIN -> store.rain
      [] r.type = WMR_UVI -> store.uvi
      [] r.type = WMR_BARO -> store.baro
      [] r.type = WMR_STATUS -> store.status
      [] r.type = WMR_TEMP -> store.temp[r.data.sensor_id]
      [] r.type = WMR_META -> store.meta

\* push_handler linking the new node at the tail.
push_handler_at_tail(list, wh) == list \o << wh >>

\* wmr_add_handler: the new node becomes the head of the list.
push_handler(list, wh) == << wh >> \o list

\* invoke_handlers: the calls made, in order, walking the list from its head.
invoke_handlers(list, reading) ==
    [i \in 1 .. Len(list) |->
        [handler |-> list[i].handler, arg |-> list[i].arg, reading |-> reading]]

-----------------------------------------------------------------------------
(* Checksum                                                                *)

RECURSIVE verify_sum(_, _, _, _)
\* The loop of verify_packet: sum += packet[i] for i = from .. until - 1.
\* sum is a uint_t; a packet has at most 255 bytes, so the sum stays under
\* 2^16 and never wraps.
verify_sum(p, from, until, sum) ==
    IF from >= until THEN sum
    ELSE verify_sum(p, from + 1, until, sum + p[from + 1])

\* verify_packet reading the checksum high byte first.
verify_packet_big_endian(p, len) ==
    IF len <= 2 THEN -1
    ELSE LET sum == verify_sum(p, 0, len - 2, 0)
             checksum == 256 * p[len - 1] + p[len]
         IN  IF sum # checksum THEN -1 ELSE 0

\* 0 when the packet verifies; -1, which as a uint_t differs from 0, when
\* it does not.
verify_packet(p, len) ==
    IF len <= 2 THEN -1
    ELSE LET sum == verify_sum(p, 0, len - 2, 0)
             checksum == 256 * p[len] + p[len - 1]
         IN  IF sum # checksum THEN -1 ELSE 0

-----------------------------------------------------------------------------
(* Bounds and inputs                                                       *)

\* The wall clock takes the values 0 .. MaxClock.
MaxClock == 1
\* At most this many handlers are registered.
MaxHandlers == 2
\* A physical frame carries SmallFill payload bytes or is full.
SmallFill == 3
\* The cursor is followed for at most this many bytes past the frame buffer.
MaxOverrun == 2

Clock == 0 .. MaxClock

\* What a read outside any buffer may yield.
Garbage == {0, 255}

\* IsTypeMark with both comparisons strict.
IsTypeMark_exclusive(b) == b > TYPE_MARK_LO /\ b < TYPE_MARK_HI

IsTypeMark(b) == b >= TYPE_MARK_LO /\ b <= TYPE_MARK_HI

Zeros(n) == [i \in 1 .. n |-> 0]

\* hid_read: the frames the device may deliver next, each with the bytes
\* it leaves undelivered.  The first byte of a frame counts its payload.
hid_read(w) ==
    { LET m == Min(n, Len(w))
      IN  [buf |-> << m >> \o SubSeq(w, 1, m) \o Zeros(WMR200_FRAME_SIZE - 1 - m),
           rest |-> SubSeq(w, m + 1, Len(w))]
      : n \in {SmallFill, WMR200_FRAME_SIZE - 1} }

\* hid_read of a physical frame as the device sends it: the transfer writes
\* the bytes it delivers (all WMR200_FRAME_SIZE of them, or fewer when the
\* read is short or fails) and leaves the rest of the buffer as it was.
hid_read_raw(b, frame) ==
    frame \o SubSeq(b, Len(frame) + 1, WMR200_FRAME_SIZE)

-----------------------------------------------------------------------------
(* Initial state: wmr_open has returned                                    *)

ZeroMeta ==
    [num_frames |-> 0, num_bytes |-> 0, num_packets |-> 0, num_failed |-> 0,
     latest_packet |-> 0, uptime |-> 0]

NoReading == Reading(0, 0, ZeroMeta)

\* memset(&wmr->latest, 0, sizeof (wmr->latest))
ZeroLatest ==
    [wind |-> Reading(0, 0, [dir |-> "NULL", gust_speed |-> 0, avg_speed |-> 0,
                             chill |-> 0]),
     rain |-> Reading(0, 0, [rate |-> 0, accum_hour |-> 0, accum_24h |-> 0,
                             accum_2007 |-> 0]),
     uvi |-> Reading(0, 0, [index |-> 0]),
     baro |-> Reading(0, 0, [pressure |-> 0, alt_pressure |-> 0,
                             forecast |-> "NULL"]),
     status |-> Reading(0, 0, [wind_bat |-> "NULL", temp_bat |-> "NULL",
                               rain_bat |-> "NULL", uv_bat |-> "NULL",
                               wind_sensor |-> "NULL", temp_sensor |-> "NULL",
                               rain_sensor |-> "NULL", uv_sensor |-> "NULL",
                               rtc_signal_level |-> "NULL"]),
     temp |-> [i \in 0 .. WMR200_MAX_TEMP_SENSORS - 1 |->
                  Reading(0, 0, [humidity |-> 0, heat_index |-> 0, temp |-> 0,
                                 dew_point |-> 0, sensor_id |-> 0])],
     meta |-> NoReading]

NoEvent ==
    [seq |-> 0, sub |-> 0, op |-> "none", off |-> 0, reading |-> NoReading]

\* The k-th handler registered is callback k with context k + 10.
Registration(k) == [handler |-> k, arg |-> k + 10]

\* The state wmr_open leaves, with the handlers hs registered and, for the
\* specifications that begin after wmr_start, the threads at their entry.
Setup(w, t, hs, st, mlpc, hbpc, snt) ==
    /\ wire = w
    /\ now = t
    /\ buf = Zeros(WMR200_FRAME_SIZE)
    /\ buf_avail = 0
    /\ buf_pos = 0
    /\ packet = << >>
    /\ packet_type = 0
    /\ packet_len = 0
    /\ meta = ZeroMeta
    /\ latest = ZeroLatest
    /\ handler = hs
    /\ conn_since = t
    /\ sent = snt
    /\ live = 0
    /\ started = st
    /\ exited = FALSE
    /\ ml_pc = mlpc
    /\ ml_i = 0
    /\ ml_sub = 0
    /\ ml_gotos = 0
    /\ verify_ret = 0
    /\ hb_pc = hbpc
    /\ hb_reading = NoReading
    /\ cancel_ml = FALSE
    /\ cancel_hb = FALSE
    /\ stop_pc = "none"
    /\ ml_calls = << >>
    /\ hb_calls = << >>
    /\ ml_event = NoEvent
    /\ hist_warn = 0
    /\ hist_ext = 0
    /\ stop_mid = 0

-----------------------------------------------------------------------------
(* read_byte                                                               *)

\* The outcomes of one read_byte call in the current state: the byte it
\* returns and the cursor it leaves.  With the frame used up it calls
\* hid_read, which blocks while the device has nothing to deliver and is a
\* cancellation point.
ReadOutcomes ==
    IF buf_avail # 0
    THEN IF buf_pos >= WMR200_FRAME_SIZE + MaxOverrun
         THEN { }
         ELSE { [byte |-> b, buf |-> buf, avail |-> buf_avail - 1,
                 pos |-> buf_pos + 1, rest |-> wire, raw |-> raw_frames,
                 frames |-> 0]
                : b \in IF buf_pos < WMR200_FRAME_SIZE THEN {buf[buf_pos + 1]}
                        ELSE Garbage }
    ELSE IF cancel_ml
    THEN { }
    ELSE IF raw_frames # << >>
    THEN LET nb == hid_read_raw(buf, Head(raw_frames))
         IN  { [byte |-> nb[2], buf |-> nb, avail |-> nb[1] - 1, pos |-> 2,
                rest |-> wire, raw |-> Tail(raw_frames), frames |-> 1] }
    ELSE IF wire = << >>
    THEN { }
    ELSE { [byte |-> f.buf[2], buf |-> f.buf, avail |-> f.buf[1] - 1,
            pos |-> 2, rest |-> f.rest, raw |-> raw_frames, frames |-> 1]
           : f \in hid_read(wire) }

read_byte(r) ==
    /\ buf' = r.buf
    /\ buf_avail' = r.avail
    /\ buf_pos' = r.pos
    /\ wire' = r.rest
    /\ raw_frames' = r.raw
    /\ meta' = [meta EXCEPT !.num_frames = @ + r.frames, !.num_bytes = @ + 1]

ml_rest == << handler, conn_since, started, now, hb_pc, hb_reading,
              cancel_ml, cancel_hb, stop_pc, hb_calls, stop_mid >>

-----------------------------------------------------------------------------
(* mainloop                                                                *)

\* wmr->packet_type = read_byte(wmr)
MainReadType ==
    /\ ~exited
    /\ ml_pc = "read_type"
    /\ \E r \in ReadOutcomes :
          /\ read_byte(r)
          /\ packet_type' = r.byte
    /\ ml_pc' = "act"
    /\ ml_gotos' = 0
    /\ UNCHANGED << packet, packet_len, latest, sent, live, exited, ml_i,
                    ml_sub, verify_ret, ml_calls, ml_event, hist_warn,
                    hist_ext >>
    /\ UNCHANGED ml_rest

\* MainAct with COMMUNICATION_STOP going back to the read of a packet type.
MainAct_stop_continues ==
    /\ ~exited
    /\ ml_pc = "act"
    /\ CASE packet_type = HISTORIC_DATA_NOTIF ->
              /\ ~cancel_ml
              /\ \E ok \in BOOLEAN :
                    IF ok
                    THEN /\ sent' = Append(sent, REQUEST_HISTORIC_DATA)
                         /\ ml_pc' = "read_type"
                         /\ UNCHANGED exited
                    ELSE /\ exited' = TRUE
                         /\ UNCHANGED << sent, ml_pc >>
         [] packet_type \in {LOGGER_DATA_ERASE, COMMUNICATION_STOP} ->
              /\ ml_pc' = "read_type"
              /\ UNCHANGED << sent, exited >>
         [] OTHER ->
              /\ ml_pc' = "read_len"
              /\ UNCHANGED << sent, exited >>
    /\ UNCHANGED << wire, raw_frames, buf, buf_avail, buf_pos, meta, packet,
                    packet_type, packet_len, latest, live, ml_i, ml_sub,
                    ml_gotos, verify_ret, ml_calls, ml_event, hist_warn,
                    hist_ext >>
    /\ UNCHANGED ml_rest

\* act_on_packet_type: the switch on the packet type.  send_cmd_frame writes
\* a frame (hid_write, a cancellation point) and exits when the write fails.
MainAct ==
    /\ ~exited
    /\ ml_pc = "act"
    /\ CASE packet_type = HISTORIC_DATA_NOTIF ->
              /\ ~cancel_ml
              /\ \E ok \in BOOLEAN :
                    IF ok
                    THEN /\ sent' = Append(sent, REQUEST_HISTORIC_DATA)
                         /\ ml_pc' = "read_type"
                         /\ UNCHANGED exited
                    ELSE /\ exited' = TRUE
                         /\ UNCHANGED << sent, ml_pc >>
         [] packet_type = LOGGER_DATA_ERASE ->
              /\ ml_pc' = "read_type"
              /\ UNCHANGED << sent, exited >>
         [] OTHER ->
              /\ ml_pc' = "read_len"
              /\ UNCHANGED << sent, exited >>
    /\ UNCHANGED << wire, raw_frames, buf, buf_avail, buf_pos, meta, packet, packet_type,
                    packet_len, latest, live, ml_i, ml_sub, ml_gotos,
                    verify_ret, ml_calls, ml_event, hist_warn, hist_ext >>
    /\ UNCHANGED ml_rest

\* wmr->packet_len = read_byte(wmr), and the test for a packet type mark
MainReadLen ==
    /\ ~exited
    /\ ml_pc = "read_len"
    /\ \E r \in ReadOutcomes :
          /\ read_byte(r)
          /\ packet_len' = r.byte
          /\ IF IsTypeMark(r.byte)
             THEN /\ packet_type' = r.byte
                  /\ ml_pc' = "act"
                  /\ ml_gotos' = ml_gotos + 1
             ELSE /\ ml_pc' = "alloc"
                  /\ UNCHANGED << packet_type, ml_gotos >>
    /\ UNCHANGED << packet, latest, sent, live, exited, ml_i, ml_sub,
                    verify_ret, ml_calls, ml_event, hist_warn, hist_ext >>
    /\ UNCHANGED ml_rest

\* malloc_safe(packet_len), packet[0] = type, packet[1] = len.  The buffer
\* has packet_len bytes; the bytes not yet written are shown as 0.
MainAlloc ==
    /\ ~exited
    /\ ml_pc = "alloc"
    /\ packet' = [i \in 1 .. packet_len |->
                     IF i = 1 THEN packet_type
                     ELSE IF i = 2 THEN packet_len ELSE 0]
    /\ live' = live + 1
    /\ ml_i' = 2
    /\ ml_pc' = IF 2 < packet_len THEN "payload" ELSE "count"
    /\ UNCHANGED << wire, raw_frames, buf, buf_avail, buf_pos, meta, packet_type,
                    packet_len, latest, sent, exited, ml_sub, ml_gotos,
                    verify_ret, ml_calls, ml_event, hist_warn, hist_ext >>
    /\ UNCHANGED ml_rest

\* One round of the payload loop: packet[i] = read_byte(wmr)
MainPayload ==
    /\ ~exited
    /\ ml_pc = "payload"
    /\ \E r \in ReadOutcomes :
          /\ read_byte(r)
          /\ packet' = [packet EXCEPT ![ml_i + 1] = r.byte]
    /\ ml_i' = ml_i + 1
    /\ ml_pc' = IF ml_i + 1 < packet_len THEN "payload" ELSE "count"
    /\ UNCHANGED << packet_type, packet_len, latest, sent, live, exited,
                    ml_sub, ml_gotos, verify_ret, ml_calls, ml_event,
                    hist_warn, hist_ext >>
    /\ UNCHANGED ml_rest

\* wmr->meta.num_packets++ and the call of verify_packet
MainCount ==
    /\ ~exited
    /\ ml_pc = "count"
    /\ meta' = [meta EXCEPT !.num_packets = @ + 1]
    /\ verify_ret' = verify_packet(packet, packet_len)
    /\ ml_pc' = "verified"
    /\ UNCHANGED << wire, raw_frames, buf, buf_avail, buf_pos, packet, packet_type,
                    packet_len, latest, sent, live, exited, ml_i, ml_sub,
                    ml_gotos, ml_calls, ml_event, hist_warn, hist_ext >>
    /\ UNCHANGED ml_rest

\* MainDrop without the count of the failure.
MainDrop_uncounted ==
    /\ ~exited
    /\ ml_pc = "verified"
    /\ verify_ret # 0
    /\ ml_pc' = "read_type"
    /\ UNCHANGED << wire, raw_frames, buf, buf_avail, buf_pos, packet, packet_type,
                    packet_len, latest, sent, live, exited, ml_i, ml_sub,
                    ml_gotos, verify_ret, ml_calls, ml_event, hist_warn,
                    hist_ext, meta >>
    /\ UNCHANGED ml_rest

\* verify_packet(wmr) != 0: the packet is dropped
MainDrop ==
    /\ ~exited
    /\ ml_pc = "verified"
    /\ verify_ret # 0
    /\ meta' = [meta EXCEPT !.num_failed = @ + 1]
    /\ ml_pc' = "read_type"
    /\ UNCHANGED << wire, raw_frames, buf, buf_avail, buf_pos, packet, packet_type,
                    packet_len, latest, sent, live, exited, ml_i, ml_sub,
                    ml_gotos, verify_ret, ml_calls, ml_event, hist_warn,
                    hist_ext >>
    /\ UNCHANGED ml_rest

\* The packet verified: wmr->meta.latest_packet = time(NULL)
MainAccept ==
    /\ ~exited
    /\ ml_pc = "verified"
    /\ verify_ret = 0
    /\ meta' = [meta EXCEPT !.latest_packet = now]
    /\ ml_pc' = "dispatch"
    /\ ml_sub' = 0
    /\ hist_warn' = 0
    /\ hist_ext' = 0
    /\ UNCHANGED << wire, raw_frames, buf, buf_avail, buf_pos, packet, packet_type,
                    packet_len, latest, sent, live, exited, ml_i, ml_gotos,
                    verify_ret, ml_calls, ml_event >>
    /\ UNCHANGED ml_rest

\* dispatch_packet, one step of it at a time: a decoder call with its
\* update_if_newer and invoke_handlers, or the read of the count byte of a
\* historic record.  A temperature record of an unknown sensor ends the
\* process.
MainDispatch ==
    /\ ~exited
    /\ ml_pc = "dispatch"
    /\ \E g \in Garbage :
          LET plan == dispatch_packet(packet_type, packet, g)
              step == plan[ml_sub + 1]
              done == IF ml_sub + 1 >= Len(plan) THEN "free" ELSE "dispatch"
          IN  IF plan = << >>
              THEN /\ ml_pc' = "free"
                   /\ UNCHANGED << latest, exited, ml_sub, ml_calls, ml_event,
                                   hist_warn, hist_ext >>
              ELSE IF step.op = "count"
              THEN /\ hist_warn' = hist_warn
                         + (IF ext_sensor_count(packet, g) > WMR200_MAX_TEMP_SENSORS
                            THEN 1 ELSE 0)
                   /\ ml_sub' = ml_sub + 1
                   /\ ml_pc' = done
                   /\ UNCHANGED << latest, exited, ml_calls, ml_event, hist_ext >>
              ELSE /\ hist_ext' = hist_ext + (IF step.off >= 33 THEN 1 ELSE 0)
                   /\ IF step.op = "temp" /\ temp_unknown_sensor(packet, step.off, g)
                      THEN /\ exited' = TRUE
                           /\ UNCHANGED << latest, ml_sub, ml_calls, ml_event,
                                           ml_pc >>
                      ELSE LET reading == Decode(step.op, packet, step.off, g)
                           IN  /\ latest' = Merge(latest, reading)
                               /\ ml_calls' = invoke_handlers(handler, reading)
                               /\ ml_event' = [seq |-> meta.num_packets,
                                               sub |-> ml_sub, op |-> step.op,
                                               off |-> step.off,
                                               reading |-> reading]
                               /\ ml_sub' = ml_sub + 1
                               /\ ml_pc' = done
                               /\ UNCHANGED exited
                   /\ UNCHANGED hist_warn
    /\ UNCHANGED << wire, raw_frames, buf, buf_avail, buf_pos, meta, packet, packet_type,
                    packet_len, sent, live, ml_i, ml_gotos, verify_ret >>
    /\ UNCHANGED ml_rest

\* free(wmr->packet)
MainFree ==
    /\ ~exited
    /\ ml_pc = "free"
    /\ live' = live - 1
    /\ ml_pc' = "read_type"
    /\ UNCHANGED << wire, raw_frames, buf, buf_avail, buf_pos, meta, packet, packet_type,
                    packet_len, latest, sent, exited, ml_i, ml_sub, ml_gotos,
                    verify_ret, ml_calls, ml_event, hist_warn, hist_ext >>
    /\ UNCHANGED ml_rest

\* The mainloop thread is at a cancellation point (hid_read in read_byte,
\* hid_write in send_cmd_frame) with a cancellation pending: it ends.
MainAtCancellationPoint ==
    \/ ml_pc \in {"read_type", "read_len", "payload"} /\ buf_avail = 0
    \/ ml_pc = "act" /\ packet_type = HISTORIC_DATA_NOTIF

MainCancelled ==
    /\ ~exited
    /\ cancel_ml
    /\ MainAtCancellationPoint
    /\ ml_pc' = "terminated"
    /\ UNCHANGED << wire, raw_frames, buf, buf_avail, buf_pos, meta, packet, packet_type,
                    packet_len, latest, sent, live, exited, ml_i, ml_sub,
                    ml_gotos, verify_ret, ml_calls, ml_event, hist_warn,
                    hist_ext >>
    /\ UNCHANGED ml_rest

mainloop ==
    \/ MainReadType
    \/ MainAct
    \/ MainReadLen
    \/ MainAlloc
    \/ MainPayload
    \/ MainCount
    \/ MainDrop
    \/ MainAccept
    \/ MainDispatch
    \/ MainFree

-----------------------------------------------------------------------------
(* heartbeat_loop                                                          *)

hb_rest == << wire, raw_frames, buf, buf_avail, buf_pos, packet, packet_type, packet_len,
              handler, conn_since, sent, live, started, now, ml_pc, ml_i,
              ml_sub, ml_gotos, verify_ret, cancel_ml, cancel_hb, stop_pc,
              ml_calls, ml_event, hist_warn, hist_ext, stop_mid >>

\* send_heartbeat: hid_write, a cancellation point; exit(1) when it fails
HbSend ==
    /\ ~exited
    /\ hb_pc = "send"
    /\ ~cancel_hb
    /\ \E ok \in BOOLEAN :
          IF ok
          THEN hb_pc' = "uptime" /\ UNCHANGED exited
          ELSE exited' = TRUE /\ UNCHANGED hb_pc
    /\ UNCHANGED << meta, latest, hb_reading, hb_calls >>
    /\ UNCHANGED hb_rest

\* wmr->meta.uptime = time(NULL) - wmr->conn_since
HbUptime ==
    /\ ~exited
    /\ hb_pc = "uptime"
    /\ meta' = [meta EXCEPT !.uptime = now - conn_since]
    /\ hb_pc' = "time"
    /\ UNCHANGED << latest, hb_reading, hb_calls, exited >>
    /\ UNCHANGED hb_rest

\* reading.time = time(NULL), reading.type = WMR_META
HbTime ==
    /\ ~exited
    /\ hb_pc = "time"
    /\ hb_reading' = Reading(WMR_META, now, ZeroMeta)
    /\ hb_pc' = "copy_frames"
    /\ UNCHANGED << meta, latest, hb_calls, exited >>
    /\ UNCHANGED hb_rest

\* The fields of wmr->meta in the order reading.meta = wmr->meta copies them,
\* each with the position after it.  uptime, which only this thread writes,
\* goes with the last one.
CopyOrder ==
    << [at |-> "copy_frames", next |-> "copy_bytes"],
       [at |-> "copy_bytes", next |-> "copy_packets"],
       [at |-> "copy_packets", next |-> "copy_failed"],
       [at |-> "copy_failed", next |-> "copy_latest"],
       [at |-> "copy_latest", next |-> "emit"] >>

CopyField(dst, at) ==
    CASE at = "copy_frames" -> [dst EXCEPT !.num_frames = meta.num_frames]
      [] at = "copy_bytes" -> [dst EXCEPT !.num_bytes = meta.num_bytes]
      [] at = "copy_packets" -> [dst EXCEPT !.num_packets = meta.num_packets]
      [] at = "copy_failed" -> [dst EXCEPT !.num_failed = meta.num_failed]
      [] at = "copy_latest" -> [dst EXCEPT !.latest_packet = meta.latest_packet,
                                           !.uptime = meta.uptime]

\* reading.meta = wmr->meta: a plain struct copy, one field at a step
HbCopy ==
    /\ ~exited
    /\ \E k \in 1 .. Len(CopyOrder) :
          /\ hb_pc = CopyOrder[k].at
          /\ hb_reading' = [hb_reading EXCEPT !.data = CopyField(@, hb_pc)]
          /\ hb_pc' = CopyOrder[k].next
    /\ UNCHANGED << meta, latest, hb_calls, exited >>
    /\ UNCHANGED hb_rest

\* wmr->latest.meta = reading; invoke_handlers(wmr, &reading)
emit_meta_packet(store, reading) == [store EXCEPT !.meta = reading]

HbEmit ==
    /\ ~exited
    /\ hb_pc = "emit"
    /\ latest' = emit_meta_packet(latest, hb_reading)
    /\ hb_calls' = invoke_handlers(handler, hb_reading)
    /\ hb_reading' = NoReading
    /\ hb_pc' = "sleep"
    /\ UNCHANGED << meta, exited >>
    /\ UNCHANGED hb_rest

\* usleep(HEARTBEAT_INTERVAL_SEC * 1e6), a cancellation point
HbSleep ==
    /\ ~exited
    /\ hb_pc = "sleep"
    /\ ~cancel_hb
    /\ hb_pc' = "send"
    /\ UNCHANGED << meta, latest, hb_reading, hb_calls, exited >>
    /\ UNCHANGED hb_rest

\* The heartbeat thread is at a cancellation point with a cancellation
\* pending: it ends.
HbCancelled ==
    /\ ~exited
    /\ cancel_hb
    /\ hb_pc \in {"send", "sleep"}
    /\ hb_pc' = "terminated"
    /\ UNCHANGED << meta, latest, hb_reading, hb_calls, exited >>
    /\ UNCHANGED hb_rest

heartbeat_loop ==
    \/ HbSend
    \/ HbUptime
    \/ HbTime
    \/ HbCopy
    \/ HbEmit
    \/ HbSleep

-----------------------------------------------------------------------------
(* The public interface and the environment                                *)

api_rest == << wire, raw_frames, buf, buf_avail, buf_pos, packet, packet_type, packet_len,
               meta, latest, conn_since, live, now, ml_i, ml_sub, ml_gotos,
               verify_ret, hb_reading, ml_calls, hb_calls, ml_event,
               hist_warn, hist_ext >>

\* The caller registers its handlers before it starts the loops.
wmr_add_handler ==
    /\ ~exited
    /\ started = "no"
    /\ Len(handler) < MaxHandlers
    /\ handler' = push_handler(handler, Registration(Len(handler) + 1))
    /\ UNCHANGED << sent, started, exited, ml_pc, hb_pc, cancel_ml, cancel_hb,
                    stop_pc, stop_mid >>
    /\ UNCHANGED api_rest

\* wmr_start: two pthread_create calls, either of which may fail, then the
\* LOGGER_DATA_ERASE command frame.
wmr_start ==
    /\ ~exited
    /\ started = "no"
    /\ \E outcome \in {"hb_fails", "ml_fails", "write_fails", "ok"} :
          /\ hb_pc' = IF outcome = "hb_fails" THEN "idle" ELSE "send"
          /\ ml_pc' = IF outcome \in {"hb_fails", "ml_fails"} THEN "idle"
                      ELSE "read_type"
          /\ started' = IF outcome \in {"hb_fails", "ml_fails"} THEN "failed"
                        ELSE IF outcome = "ok" THEN "ok" ELSE "no"
          /\ exited' = (outcome = "write_fails")
          /\ sent' = IF outcome = "ok" THEN Append(sent, LOGGER_DATA_ERASE)
                     ELSE sent
    /\ UNCHANGED << handler, cancel_ml, cancel_hb, stop_pc, stop_mid >>
    /\ UNCHANGED api_rest

\* wmr_stop: pthread_cancel of both threads.  stop_mid notes the packet the
\* mainloop had begun and not finished assembling, by its number.
StopCancel ==
    /\ ~exited
    /\ started = "ok"
    /\ stop_pc = "none"
    /\ cancel_hb' = TRUE
    /\ cancel_ml' = TRUE
    /\ stop_pc' = "join_hb"
    /\ stop_mid' = IF ml_pc \in {"alloc", "payload"}
                   THEN meta.num_packets + 1 ELSE 0
    /\ UNCHANGED << handler, sent, started, exited, ml_pc, hb_pc >>
    /\ UNCHANGED api_rest

\* pthread_join(wmr->heartbeat_thread, NULL)
StopJoinHb ==
    /\ ~exited
    /\ stop_pc = "join_hb"
    /\ hb_pc = "terminated"
    /\ stop_pc' = "join_ml"
    /\ UNCHANGED << handler, sent, started, exited, ml_pc, hb_pc, cancel_ml,
                    cancel_hb, stop_mid >>
    /\ UNCHANGED api_rest

\* StopJoinMl returning without the wait for the mainloop thread.
StopJoinMl_no_wait ==
    /\ ~exited
    /\ stop_pc = "join_ml"
    /\ stop_pc' = "returned"
    /\ UNCHANGED << handler, sent, started, exited, ml_pc, hb_pc, cancel_ml,
                    cancel_hb, stop_mid >>
    /\ UNCHANGED api_rest

\* pthread_join(wmr->mainloop_thread, NULL), and the return
StopJoinMl ==
    /\ ~exited
    /\ stop_pc = "join_ml"
    /\ ml_pc = "terminated"
    /\ stop_pc' = "returned"
    /\ UNCHANGED << handler, sent, started, exited, ml_pc, hb_pc, cancel_ml,
                    cancel_hb, stop_mid >>
    /\ UNCHANGED api_rest

wmr_stop ==
    \/ StopCancel
    \/ StopJoinHb
    \/ StopJoinMl

\* The wall clock changes; it may step backwards.  The steps of the loops
\* are short against the clock's resolution of a second: the clock is
\* taken to change while the heartbeat thread sleeps.
Tick ==
    /\ ~exited
    /\ hb_pc = "sleep"
    /\ \E t \in Clock \ {now} : now' = t
    /\ UNCHANGED << wire, raw_frames, buf, buf_avail, buf_pos, packet, packet_type,
                    packet_len, meta, latest, handler, conn_since, sent, live,
                    started, exited, ml_pc, ml_i, ml_sub, ml_gotos, verify_ret,
                    hb_pc, hb_reading, cancel_ml, cancel_hb, stop_pc, ml_calls,
                    hb_calls, ml_event, hist_warn, hist_ext, stop_mid >>

-----------------------------------------------------------------------------
(* Input streams                                                           *)

RECURSIVE Sum(_)
Sum(s) == IF s = << >> THEN 0 ELSE Head(s) + Sum(Tail(s))

\* A packet on the wire: type, length, payload, checksum (low byte first).
\* off is added to the checksum; 0 gives a packet that verifies.
Pkt(type, payload, off) ==
    LET body == << type, Len(payload) + 4 >> \o payload
        cs == Sum(body) + off
    IN  body \o << cs % 256, cs \div 256 >>

\* Minute t of 01:00, day 1, month 1, year 2015.
TimeBytes(t) == << t, 1, 1, 1, 15 >>

UviPkt(t, index) == Pkt(WMR_UVI, TimeBytes(t) \o << index >>, 0)

WindPkt(t, dir) == Pkt(WMR_WIND, TimeBytes(t) \o << dir, 0, 100, 3, 2, 7, 0 >>, 0)

\* A historic record: count is its external sensor count byte, ids the
\* sensor ids of its temperature records, the primary one first.
HistoricPkt(t, count, ids) ==
    LET n == 33 + 7 * Len(ids)
        payload == [i \in 3 .. n |->
                       IF i - 1 \in 2 .. 6 THEN TimeBytes(t)[i - 2]
                       ELSE IF i - 1 = 32 THEN count
                       ELSE IF i - 1 >= 33 /\ (i - 1 - 33) % 7 = 0
                       THEN ids[((i - 1 - 33) \div 7) + 1]
                       ELSE IF i - 1 = 7 THEN t
                       ELSE 0]
    IN  Pkt(HISTORIC_DATA, [i \in 1 .. n - 2 |-> payload[i + 2]], 0)

\* Bytes of the short streams: packet lengths 0..4, unknown packet types,
\* HISTORIC_DATA_NOTIF and COMMUNICATION_STOP.
FuzzBytes == {0, 1, 3, 4, HISTORIC_DATA_NOTIF, COMMUNICATION_STOP}

\* Length of the short streams.
FuzzLen == 4

FuzzStreams == [1 .. FuzzLen -> FuzzBytes]

RecordStreams ==
    { UviPkt(5, 1) \o UviPkt(3, 2) \o UviPkt(5, 3) \o UviPkt(6, 4),
      WindPkt(2, 0) \o HistoricPkt(4, 200, << 0, 1, 0 >>) \o UviPkt(1, 9),
      HistoricPkt(3, 1, << 1, 0 >>) \o HistoricPkt(2, 0, << 0 >>),
      HistoricPkt(3, 2, << 0, 2, 1 >>),
      HistoricPkt(3, 3, << 4 >>),
      << LOGGER_DATA_ERASE, WMR_WIND, HEARTBEAT, COMMUNICATION_STOP, WMR_UVI >>
          \o Tail(UviPkt(7, 2)),
      << 0, 2, 0, 3, 1, 3, 3, 0 >>,
      Pkt(WMR_WIND, << >>, 0) \o << 0 >> }

FramerStreams == FuzzStreams \cup RecordStreams

\* A status packet: the flag bytes 2..5 are also its time bytes.
StatusPkt(b2, b3, b4, b5) == Pkt(WMR_STATUS, << b2, b3, b4, b5 >>, 0)

SystemStreams ==
    { StatusPkt(1, 0, 3, 16),
      << HISTORIC_DATA_NOTIF, 0, 3, 1, LOGGER_DATA_ERASE >> }

RECURSIVE Registered(_)
\* The handler list after k calls of wmr_add_handler.
Registered(k) ==
    IF k = 0 THEN << >>
    ELSE push_handler(Registered(k - 1), Registration(k))

-----------------------------------------------------------------------------
(* Specifications                                                          *)

\* The program from the return of wmr_open: the registration of handlers,
\* wmr_start, the two loops and the wall clock.
Init ==
    \E w \in SystemStreams :
        /\ Setup(w, 0, << >>, "no", "idle", "idle", << >>)
        /\ raw_frames = << >>

Next ==
    \/ mainloop
    \/ heartbeat_loop
    \/ wmr_add_handler
    \/ wmr_start
    \/ Tick

Spec == Init /\ [][Next]_vars

\* The program from the return of wmr_start, with wmr_stop: the two loops,
\* the cancellation of each, and the joins.  Every thread that can run does
\* run in the end.
InitStop ==
    \E w \in SystemStreams :
        /\ Setup(w, 0, Registered(MaxHandlers), "ok", "read_type", "send",
                 << LOGGER_DATA_ERASE >>)
        /\ raw_frames = << >>

NextStop ==
    \/ mainloop
    \/ MainCancelled
    \/ heartbeat_loop
    \/ HbCancelled
    \/ wmr_stop

SpecStop ==
    /\ InitStop
    /\ [][NextStop]_vars
    /\ WF_vars(mainloop \/ MainCancelled)
    /\ WF_vars(heartbeat_loop \/ HbCancelled)
    /\ WF_vars(StopJoinHb \/ StopJoinMl)

\* The framing loop on its own, from the return of wmr_start, in the runs
\* in which the heartbeat thread is not scheduled.
InitFramer ==
    \E w \in FramerStreams, k \in 0 .. MaxHandlers :
        /\ Setup(w, 0, Registered(k), "ok", "read_type", "send",
                 << LOGGER_DATA_ERASE >>)
        /\ raw_frames = << >>

NextFramer == mainloop

SpecFramer == InitFramer /\ [][NextFramer]_vars

\* The magnitudes of a temperature field: twelve bits.
Magnitudes == 0 .. 16 * 256 - 1

\* A temperature in tenths, magnitude m and negative or not, as the station
\* encodes it: the low byte, then the sign marker and the high nibble.
EncodeTemp(m, neg) ==
    << m % 256, 16 * (IF neg THEN SIGN_NEGATIVE ELSE 0) + m \div 256 >>

TempPkt(t, id, temp, humidity, dew_point, heat_index) ==
    Pkt(WMR_TEMP,
        TimeBytes(t) \o << id >> \o temp \o << humidity >> \o dew_point
            \o << heat_index >>, 0)

BaroPkt(t, b7, b8, b9, b10) == Pkt(WMR_BARO, TimeBytes(t) \o << b7, b8, b9, b10 >>, 0)

\* Packets for the decoders: every temperature with the dew point running
\* the other way, sensors 0 and 1; temperature records of other sensors;
\* barometric packets with every forecast nibble; wind packets with every
\* direction nibble; status packets with flag bytes of all kinds.
DecoderPackets ==
    { TempPkt(1, m % 2, EncodeTemp(m, neg), 50,
              EncodeTemp(16 * 256 - 1 - m, ~neg), m % 256)
        : m \in Magnitudes, neg \in BOOLEAN }
    \cup { TempPkt(1, id, EncodeTemp(123, TRUE), 50, EncodeTemp(45, FALSE), 0)
             : id \in 2 .. 15 }
    \cup { BaroPkt(1, 240, 16 * f + 3, 1, 4) : f \in 0 .. 15 }
    \cup { WindPkt(1, d) : d \in 0 .. 15 }
    \cup { StatusPkt(b, 255 - b, b, 255 - b) : b \in {0, 1, 2, 16, 32, 255} }

\* The state in which mainloop has assembled and verified the packet p,
\* delivered in full physical frames, and is about to call dispatch_packet.
Accepted(p, hs) ==
    LET L == Len(p)
        n == (L + WMR200_FRAME_SIZE - 2) \div (WMR200_FRAME_SIZE - 1)
        r == L - (WMR200_FRAME_SIZE - 1) * (n - 1)
    IN  /\ wire = << >>
        /\ raw_frames = << >>
        /\ now = 0
        /\ buf = << r >> \o SubSeq(p, L - r + 1, L)
                    \o Zeros(WMR200_FRAME_SIZE - 1 - r)
        /\ buf_avail = 0
        /\ buf_pos = r + 1
        /\ packet = p
        /\ packet_type = p[1]
        /\ packet_len = L
        /\ meta = [ZeroMeta EXCEPT !.num_frames = n, !.num_bytes = L,
                                   !.num_packets = 1]
        /\ latest = ZeroLatest
        /\ handler = hs
        /\ conn_since = 0
        /\ sent = << LOGGER_DATA_ERASE >>
        /\ live = 1
        /\ started = "ok"
        /\ exited = FALSE
        /\ ml_pc = "dispatch"
        /\ ml_i = L
        /\ ml_sub = 0
        /\ ml_gotos = 0
        /\ verify_ret = 0
        /\ hb_pc = "send"
        /\ hb_reading = NoReading
        /\ cancel_ml = FALSE
        /\ cancel_hb = FALSE
        /\ stop_pc = "none"
        /\ ml_calls = << >>
        /\ hb_calls = << >>
        /\ ml_event = NoEvent
        /\ hist_warn = 0
        /\ hist_ext = 0
        /\ stop_mid = 0

\* The decoders on their own: dispatch_packet and the free that follows it,
\* from the point at which a packet has been accepted.
InitDecoder == \E p \in DecoderPackets : Accepted(p, Registered(1))

NextDecoder == MainDispatch \/ MainFree

SpecDecoder == InitDecoder /\ [][NextDecoder]_vars

\* Physical frames as a device may send them.  The two halves of a UV
\* packet, well formed; a frame that declares no valid byte; a frame that
\* declares more bytes than it has; a short read of two bytes; a read that
\* delivers nothing.
FrameUviHead == << WMR200_FRAME_SIZE - 1 >> \o SubSeq(UviPkt(5, 1), 1, 7)
FrameUviTail == << 3 >> \o SubSeq(UviPkt(5, 1), 8, 10) \o Zeros(4)
FrameEmpty == << 0, 1, 4, 0, 0, 0, 0, 0 >>
FrameOver == << WMR200_FRAME_SIZE + 1, 0, 3, 0, 0, 0, 0, 0 >>
FrameShort == << 2, 0 >>
FrameFailed == << >>

ReaderFrames ==
    { FrameUviHead, FrameUviTail, FrameEmpty, FrameOver, FrameShort,
      FrameFailed }

\* At most this many physical frames are delivered.
MaxFrames == 3

RECURSIVE FrameSeqs(_)
\* The sequences of exactly n frames.
FrameSeqs(n) ==
    IF n = 0 THEN { << >> }
    ELSE { << f >> \o fs : f \in ReaderFrames, fs \in FrameSeqs(n - 1) }

\* The framing loop fed physical frames as they are, from the return of
\* wmr_start, in the runs in which the heartbeat thread is not scheduled.
InitReader ==
    \E n \in 1 .. MaxFrames : \E fs \in FrameSeqs(n) :
        /\ Setup(<< >>, 0, Registered(1), "ok", "read_type", "send",
                 << LOGGER_DATA_ERASE >>)
        /\ raw_frames = fs

NextReader == mainloop

SpecReader == InitReader /\ [][NextReader]_vars

-----------------------------------------------------------------------------
(* Claims                                                                  *)

SlotTimes(store) ==
    << store.wind.time, store.rain.time, store.uvi.time, store.baro.time,
       store.status.time, store.meta.time >>
    \o [i \in 1 .. WMR200_MAX_TEMP_SENSORS |-> store.temp[i - 1].time]

\* C1: no slot of the latest reading store, the ConnectionMeta slot
\* included, is ever overwritten by a reading older than the one it holds:
\* the timestamp of every slot never decreases, also when the wall clock
\* steps backwards.
C1_SlotTimesNeverDecrease ==
    [][\A i \in 1 .. Len(SlotTimes(latest)) :
          SlotTimes(latest')[i] >= SlotTimes(latest)[i]]_vars

\* The calls one dispatch of reading r makes when the handlers 1 .. n were
\* registered in that order: n first, 1 last, each with its own context.
ReverseOfRegistration(n, r) ==
    [i \in 1 .. n |->
        [handler |-> n - i + 1, arg |-> (n - i + 1) + 10, reading |-> r]]

\* C2: a dispatch calls every registered handler exactly once, with its own
\* context and the one reading, in reverse order of registration; for the
\* readings decoded from packets and for the ConnectionMeta reading alike.
C2_HandlersReverseOrder ==
    /\ ml_event.op # "none" =>
          ml_calls = ReverseOfRegistration(Len(handler), ml_event.reading)
    /\ latest.meta.type = WMR_META =>
          hb_calls = ReverseOfRegistration(Len(handler), latest.meta)

C2_Witness ==
    /\ Len(handler) = MaxHandlers
    /\ ml_event.op # "none"
    /\ latest.meta.type = WMR_META
    /\ Len(ml_calls) = MaxHandlers
    /\ Len(hb_calls) = MaxHandlers

\* C3: verify_packet reports a packet valid exactly when its length is
\* greater than 2 and the sum of all its bytes but the last two equals the
\* 16-bit little-endian value of the last two.
C3_VerifyIffChecksum ==
    ml_pc = "verified" =>
        (verify_ret = 0 <=>
            /\ packet_len > 2
            /\ Sum(SubSeq(packet, 1, packet_len - 2))
                   = packet[packet_len - 1] + 256 * packet[packet_len])

C3_Witness ==
    /\ ml_pc = "verified"
    /\ verify_ret = 0
    /\ packet_len > 2
    /\ meta.num_failed >= 2

\* C4: a byte in 0xD0..0xDF read in the length position becomes the packet
\* type and the switch on the type is entered again; no buffer is
\* allocated, no further byte is read and the packet counter stays.
C4_TypeMarkStep ==
    (/\ ml_pc = "read_len"
     /\ meta'.num_bytes # meta.num_bytes
     /\ packet_len' \in 208 .. 223)
    => /\ ml_pc' = "act"
       /\ packet_type' = packet_len'
       /\ packet_len' = buf'[buf_pos']
       /\ live' = live
       /\ packet' = packet
       /\ meta'.num_bytes = meta.num_bytes + 1
       /\ meta'.num_packets = meta.num_packets
       /\ ml_gotos' = ml_gotos + 1

C4_TypeMarkInLengthPosition == [][C4_TypeMarkStep]_vars

C4_Witness == ml_pc = "act" /\ ml_gotos >= 3 /\ packet_type = WMR_UVI

\* C5: a packet that fails verification is dropped: num_failed grows by
\* one, nothing else of the counters, the store and the handler log changes,
\* the process goes on, and the next byte read is taken as a packet type.
C5_DropStep ==
    /\ (ml_pc = "verified" /\ verify_ret # 0 /\ ml_pc' # ml_pc)
       => /\ meta' = [meta EXCEPT !.num_failed = meta.num_failed + 1]
          /\ latest' = latest
          /\ ml_calls' = ml_calls
          /\ ml_event' = ml_event
          /\ ml_pc' = "read_type"
          /\ ~exited'
    /\ (ml_pc = "read_type" /\ ml_pc' # ml_pc)
       => /\ ml_pc' = "act"
          /\ packet_type' = buf'[buf_pos']

C5_ChecksumFailureDrops == [][C5_DropStep]_vars

C5_Witness == ml_pc = "act" /\ ml_gotos = 0 /\ meta.num_failed >= 2

\* The heartbeat thread has copied part of wmr->meta and not yet all of it.
HbMidCopy == hb_pc \in {"copy_bytes", "copy_packets", "copy_failed", "copy_latest"}

\* C6: the two loops exclude each other on the shared state: while the
\* heartbeat loop is in the middle of reading wmr->meta, the framing loop
\* does not write it.
C6_MutualExclusion ==
    [][(HbMidCopy /\ hb_pc' = hb_pc) => meta' = meta]_vars

\* The order of the readings of a historic record.
HistoricOrder == << "rain", "wind", "uvi", "baro", "temp" >>

\* C7: the framing loop commits and dispatches in the order of assembly:
\* every store update comes with the dispatch of its reading, belongs to
\* the packet assembled last, and follows all those of earlier packets; the
\* readings of a historic record come as rain, wind, UV, barometric,
\* primary temperature, external temperatures.
C7_CommitStep ==
    /\ latest' # latest => ml_event' # ml_event
    /\ ml_event' # ml_event =>
          /\ ml_event'.seq = meta.num_packets
          /\ \/ ml_event'.seq > ml_event.seq /\ ml_event'.sub = 0
             \/ /\ ml_event'.seq = ml_event.seq
                /\ ml_event'.sub > ml_event.sub
                /\ packet_type = HISTORIC_DATA
          /\ ml_calls' = invoke_handlers(handler, ml_event'.reading)
          /\ SlotOf(latest', ml_event'.reading).time >= ml_event'.reading.time
          /\ packet_type = HISTORIC_DATA =>
                IF ml_event'.sub < 5
                THEN /\ ml_event'.op = HistoricOrder[ml_event'.sub + 1]
                     /\ ml_event'.sub = ml_event.sub + 1 \/ ml_event'.sub = 0
                ELSE /\ ml_event'.op = "temp"
                     /\ ml_event'.sub > 5
                     /\ ml_event.sub = ml_event'.sub - (IF ml_event'.sub = 6 THEN 2 ELSE 1)

C7_AssemblyOrder == [][C7_CommitStep]_vars

C7_Witness ==
    /\ ml_event.seq = 2
    /\ ml_event.sub = 7
    /\ packet_type = HISTORIC_DATA
    /\ ml_event.op = "temp"
    /\ latest.wind.time = ml_event.reading.time
    /\ latest.rain.time = ml_event.reading.time

\* C9: update_if_newer leaves the slot equal to the whole new reading when
\* the new timestamp is not older than the slot's, equal timestamps
\* included, and leaves the slot as it was when it is older.
C9_UpdateStep ==
    ml_event' # ml_event =>
        LET new == ml_event'.reading
            old == SlotOf(latest, new)
            slot == SlotOf(latest', new)
        IN  /\ new.time >= old.time => slot = new
            /\ new.time < old.time => slot = old
            /\ slot = new <=> new.time >= old.time

C9_UpdateIfNewer == [][C9_UpdateStep]_vars

C9_Witness ==
    /\ meta.num_packets = 3
    /\ ml_event.seq = 3
    /\ latest.uvi = ml_event.reading
    /\ latest.uvi.data.index = 3

\* The external sensor count byte of the historic record being decoded.
CountByte == packet[33]

ExpectedWarnings == IF CountByte > WMR200_MAX_TEMP_SENSORS THEN 1 ELSE 0

ExpectedDecodes == Min(CountByte, WMR200_MAX_TEMP_SENSORS)

\* The decode of a historic record is over: process_historic_data has
\* returned, or the process has ended in it.
HistoricOver ==
    /\ packet_type = HISTORIC_DATA
    /\ ml_pc = "free" \/ (ml_pc = "dispatch" /\ exited)

\* C10 as stated: the decode of a historic record with count byte c attempts
\* exactly min(c, M) external temperature decodes and emits exactly one
\* warning when c > M, none otherwise.
C10_ExactlyClamped ==
    HistoricOver => hist_ext = ExpectedDecodes /\ hist_warn = ExpectedWarnings

\* C10 as amended: never more than min(c, M) external decodes nor more than
\* the one warning; once the count byte is read the warning count is exact;
\* external decode k works at offset 33 + 7k; and when
\* process_historic_data returns exactly min(c, M) decodes were attempted.
C10_ClampedUnlessExit ==
    (packet_type = HISTORIC_DATA /\ ml_pc \in {"dispatch", "free"}) =>
        /\ hist_ext <= ExpectedDecodes
        /\ hist_warn <= ExpectedWarnings
        /\ ml_sub >= 6 => hist_warn = ExpectedWarnings
        /\ ml_sub < 6 => hist_ext = 0 /\ hist_warn = 0
        /\ (ml_sub >= 7 /\ ml_event.seq = meta.num_packets) =>
              /\ ml_event.off = 33 + 7 * (ml_sub - 7)
              /\ hist_ext = ml_sub - 6
        /\ ml_pc = "free" =>
              hist_ext = ExpectedDecodes /\ hist_warn = ExpectedWarnings

C10_Witness ==
    /\ packet_type = HISTORIC_DATA
    /\ ml_pc = "free"
    /\ CountByte = 200
    /\ hist_ext = WMR200_MAX_TEMP_SENSORS
    /\ hist_warn = 1

C8_CancelStep ==
    /\ cancel_ml =>
          /\ meta'.num_frames = meta.num_frames
          /\ sent' = sent
    /\ (cancel_hb /\ hb_pc \in {"send", "sleep"} /\ hb_pc' # hb_pc) =>
          hb_pc' = "terminated"
    /\ (stop_mid # 0 /\ ml_event' # ml_event /\ ml_event'.seq = stop_mid) =>
          wire' = wire

-----------------------------------------------------------------------------
(* The frame stream reader                                                 *)

\* A step in which read_byte returns a byte, the byte it returns, and
\* whether it pulled a physical frame for it.
ReadStep == meta'.num_bytes # meta.num_bytes

Returned ==
    CASE ml_pc = "read_type" -> packet_type'
      [] ml_pc = "read_len" -> packet_len'
      [] OTHER -> packet'[ml_i + 1]

Pulled == meta'.num_frames # meta.num_frames

\* C13: the bytes read_byte returns are the valid payload bytes of the
\* physical frames, in order: each byte returned is the next one of the
\* current frame, at an index within 1..valid_count (valid_count being the
\* frame's first byte), and a frame is pulled only when the valid bytes of
\* the one before have all been returned; a frame with valid_count 0 gives
\* no byte.
C13_ReadStep ==
    ReadStep =>
        LET idx == buf_pos' - 1
        IN  /\ Pulled <=> buf_avail = 0
            /\ Pulled /\ meta.num_frames > 0 => buf_pos - 1 = buf[1]
            /\ idx = IF Pulled THEN 1 ELSE buf_pos
            /\ idx <= buf'[1]
            /\ idx <= WMR200_FRAME_SIZE - 1
            /\ Returned = buf'[idx + 1]
            /\ buf_avail' = buf'[1] - idx

C13_BytesAreFramePayloads == [][C13_ReadStep]_vars

\* C17: the cursor stays inside the current physical frame: buf_avail is
\* never taken below zero and read_byte never reads at a position past the
\* frame (after a read buf_pos is one more than the position read).
C17_CursorInsideFrame ==
    /\ buf_avail >= 0
    /\ buf_pos <= WMR200_FRAME_SIZE

-----------------------------------------------------------------------------
(* The decoders                                                            *)

\* Byte i of the record the mainloop's latest decoder call worked on.
EventByte(i) == packet[ml_event.off + i + 1]

Signed(m, neg) == IF neg THEN 0 - m ELSE m

\* The field at bytes lo, lo + 1 of that record holds value v when the
\* bytes are the encoding of a magnitude and marker that make v.
DecodesEncoding(lo, v) ==
    \A hi \in 0 .. 15, neg \in BOOLEAN :
        LET m == 256 * hi + EventByte(lo)
        IN  EncodeTemp(m, neg) = << EventByte(lo), EventByte(lo + 1) >>
                => v = Signed(m, neg)

\* C11: temperature decoding undoes the sign-and-magnitude encoding: a
\* temperature record whose bytes 8, 9 encode magnitude m with the negative
\* marker decodes to -m tenths, with the positive marker to +m tenths, for
\* every m in 0..4095; the dew point likewise from bytes 11, 12.
C11_TempRoundTrip ==
    ml_event.op = "temp" =>
        /\ DecodesEncoding(8, ml_event.reading.data.temp)
        /\ DecodesEncoding(11, ml_event.reading.data.dew_point)

C11_Witness ==
    /\ ml_event.op = "temp"
    /\ << EventByte(8), EventByte(9) >> = EncodeTemp(123, TRUE)
    /\ ml_event.reading.data.temp = 0 - 123
    /\ << EventByte(11), EventByte(12) >> = EncodeTemp(16 * 256 - 1 - 123, FALSE)
    /\ ml_event.reading.data.dew_point = 16 * 256 - 1 - 123

\* The decoder call the mainloop is about to make, when it is at one.
NextCall == dispatch_packet(packet_type, packet, 0)[ml_sub + 1]

AtTempCall ==
    /\ ml_pc = "dispatch"
    /\ ml_sub < Len(dispatch_packet(packet_type, packet, 0))
    /\ NextCall.op = "temp"
    /\ NextCall.off + 7 < Len(packet)

\* C12: a temperature decode with a sensor id above 1 ends the process
\* with the store and the handlers untouched; with sensor id 0 or 1 the
\* reading goes to the temperature slot of that id, under the rule of
\* update_if_newer, and every other slot stays as it was.
C12_TempStep ==
    AtTempCall =>
        LET id == LOW(packet[NextCall.off + 8])
        IN  IF id > 1
            THEN /\ exited'
                 /\ latest' = latest
                 /\ ml_calls' = ml_calls
                 /\ ml_event' = ml_event
            ELSE /\ ~exited'
                 /\ ml_event'.reading.type = WMR_TEMP
                 /\ ml_event'.reading.data.sensor_id = id
                 /\ ml_calls' = invoke_handlers(handler, ml_event'.reading)
                 /\ latest'.temp[id] =
                        IF ml_event'.reading.time >= latest.temp[id].time
                        THEN ml_event'.reading ELSE latest.temp[id]
                 /\ [latest' EXCEPT !.temp[id] = latest.temp[id]] = latest

C12_UnknownSensorExits == [][C12_TempStep]_vars

C12_Witness ==
    /\ exited
    /\ ml_pc = "dispatch"
    /\ ml_sub = 6
    /\ latest.temp[0].type = WMR_TEMP
    /\ latest.temp[1].type = 0
    /\ ml_event.op = "temp"
    /\ ml_event.off = 26

-----------------------------------------------------------------------------
(* The framer, continued                                                   *)

\* C14: the packet types acted on at once.  HISTORIC_DATA_NOTIF: one
\* REQUEST_HISTORIC_DATA command frame is written and the framer goes back
\* to the read of a packet type (a write that fails ends the process, with
\* nothing written).  LOGGER_DATA_ERASE: back to the read of a packet type,
\* nothing written.  COMMUNICATION_STOP: nothing written, on to the read of
\* the length-or-type byte.  None reads a byte, updates the store or calls
\* a handler, whether the type was read as a type or in the length position.
C14_ActStep ==
    ml_pc = "act"
      /\ packet_type \in {HISTORIC_DATA_NOTIF, LOGGER_DATA_ERASE,
                           COMMUNICATION_STOP} =>
        /\ latest' = latest
        /\ ml_calls' = ml_calls
        /\ ml_event' = ml_event
        /\ meta' = meta
        /\ buf_pos' = buf_pos
        /\ live' = live
        /\ CASE packet_type = HISTORIC_DATA_NOTIF ->
                 \/ /\ sent' = Append(sent, REQUEST_HISTORIC_DATA)
                    /\ ml_pc' = "read_type"
                    /\ ~exited'
                 \/ /\ sent' = sent
                    /\ exited'
             [] packet_type = LOGGER_DATA_ERASE ->
                 /\ sent' = sent
                 /\ ml_pc' = "read_type"
                 /\ ~exited'
             [] packet_type = COMMUNICATION_STOP ->
                 /\ sent' = sent
                 /\ ml_pc' = "read_len"
                 /\ ~exited'

C15_AccessesInsideBuffer ==
    /\ ml_pc \in {"payload", "count", "verified", "dispatch", "free"}
          => 1 < packet_len
    /\ ml_pc \in {"dispatch", "free"} /\ ml_event.seq = meta.num_packets
          => \A i \in decoder_reads(ml_event.op, ml_event.off) : i < packet_len

\* C16: at most one packet buffer is live at any time, and none is when
\* the framer allocates one.
C16_OneLiveBuffer ==
    /\ live <= 1
    /\ ml_pc = "alloc" => live = 0

-----------------------------------------------------------------------------
(* The heartbeat's reading and wmr_start                                   *)

\* Counter values that the counters of wmr->meta can hold together: no more
\* failed packets than packets, and no byte without a frame.
Consistent(d) ==
    /\ d.num_failed <= d.num_packets
    /\ d.num_bytes > 0 => d.num_frames > 0

\* C18: every ConnectionMeta reading the heartbeat loop commits to the
\* store and hands to the handlers is a consistent snapshot of the
\* counters; in particular num_failed <= num_packets in it.
C18_ConsistentSnapshot ==
    /\ latest.meta.type = WMR_META => Consistent(latest.meta.data)
    /\ \A i \in 1 .. Len(hb_calls) : Consistent(hb_calls[i].reading.data)

\* C20: when wmr_start has returned -1 neither loop is running; when it
\* has returned 0 both have been started and wmr_start has written exactly
\* one LOGGER_DATA_ERASE command frame.
C20_StartedTogether ==
    /\ started = "failed" => hb_pc = "idle" /\ ml_pc = "idle"
    /\ started = "ok" =>
          /\ hb_pc # "idle"
          /\ ml_pc # "idle"
          /\ Len(sent) >= 1
          /\ sent[1] = LOGGER_DATA_ERASE
          /\ \A i \in 2 .. Len(sent) : sent[i] # LOGGER_DATA_ERASE

-----------------------------------------------------------------------------
(* The string tables                                                       *)

\* C19: every string a decoder takes from a table is an entry of the
\* table: the wind direction, the forecast, and the nine status flags.
C19_LookupsInsideTables ==
    LET d == ml_event.reading.data
    IN  /\ ml_event.op = "wind" => d.dir # "garbage"
        /\ ml_event.op = "baro" => d.forecast # "garbage"
        /\ ml_event.op = "status" =>
              \A f \in DOMAIN d : d[f] # "garbage"

=============================================================================
